---------------------------- MODULE Spec2Model ----------------------------
(***************************************************************************)
(* The L2 output submitter of op-proposer (proposer/driver.go): its        *)
(* construction, its Start/Stop lifecycle, the background worker with the  *)
(* L2OutputOracle and DisputeGameFactory loops, output fetching and        *)
(* validation, the L1 head wait and the dispatch through the transaction   *)
(* manager.                                                                *)
(*                                                                         *)
(* External collaborators (rollup client, contract callers, transaction    *)
(* manager) are the environment: each call returns any value of its type   *)
(* or an error, chosen with \E at the step that makes the call.            *)
(***************************************************************************)
EXTENDS Integers, Sequences, FiniteSets, TLC

(***************************************************************************)
(* Bounds of the model.                                                    *)
(***************************************************************************)
\* The largest uint64 of the model: arithmetic on uint64 wraps modulo
\* MaxUint64 + 1, as Go's does modulo 2^64.
MaxUint64 == 2
\* Output versions are 0..MaxVersion.
MaxVersion == 1
\* Worker goroutines ever spawned by one instance.
MaxWorkers == 3
\* Failed output fetches within one tick of the DGF loop.
MaxRetries == 2
\* Bonds the factory can answer are 0..MaxBond.
MaxBond == 1

\* driver.go:27, supportedL2OutputVersion = eth.Bytes32{}: the zero version.
supportedL2OutputVersion == 0

Threads == {"t1", "t2"}
Workers == 1..MaxWorkers
Uint64s == 0..MaxUint64
\* A *big.Int read from a contract (uint256) may exceed uint64.
BigInts == 0..(2 * MaxUint64 + 1)
Versions == 0..MaxVersion

\* uint64 arithmetic wraps.
Wrap(x) == x % (MaxUint64 + 1)
\* (*big.Int).Uint64(): the low 64 bits.
BigUint64(x) == x % (MaxUint64 + 1)

(***************************************************************************)
(* Values of the environment.                                              *)
(***************************************************************************)
\* eth.OutputResponse, the fields the driver reads.
OutputResponses ==
    [version : Versions, number : Uint64s, finalized : Uint64s,
     safe : Uint64s, headL1 : Uint64s]

\* What RollupProvider.RollupClient followed by OutputAtBlock can give:
\* an error of either call, or a response. val is <<>> or <<response>>.
OutputResults ==
    {[st |-> "clientErr", val |-> << >>], [st |-> "callErr", val |-> << >>]}
    \cup {[st |-> "ok", val |-> <<o>>] : o \in OutputResponses}

\* What RollupClient followed by SyncStatus can give.
SyncResults ==
    {[st |-> "clientErr", finalized |-> 0, safe |-> 0],
     [st |-> "callErr", finalized |-> 0, safe |-> 0]}
    \cup {[st |-> "ok", finalized |-> f, safe |-> s] : f \in Uint64s, s \in Uint64s}

\* A call that was not made has no result; these stand for it.
NotYetSync == [st |-> "callErr", finalized |-> 0, safe |-> 0]
NotYetOutput == [st |-> "callErr", val |-> << >>]

\* What L2OOContract.NextBlockNumber can give.
NextResults ==
    {[ok |-> FALSE, val |-> 0]} \cup {[ok |-> TRUE, val |-> b] : b \in BigInts}

\* What dgfContract.InitBonds can give.
BondResults ==
    {[ok |-> FALSE, val |-> 0]} \cup {[ok |-> TRUE, val |-> b] : b \in 0..MaxBond}

\* What Txmgr.BlockNumber can give.
BlockNumberResults ==
    {[ok |-> FALSE, val |-> 0]} \cup {[ok |-> TRUE, val |-> n] : n \in Uint64s}

(***************************************************************************)
(* Output fetching: pure in the results of the external calls.             *)
(***************************************************************************)
\* FetchOutput without the sanity check of the block number.
FetchOutputNoNumberCheck(block, res) ==
    IF res.st = "clientErr" THEN [out |-> << >>, err |-> "getting rollup client"]
    ELSE IF res.st = "callErr" THEN [out |-> << >>, err |-> "fetching output at block"]
    ELSE IF res.val[1].version # supportedL2OutputVersion
         THEN [out |-> << >>, err |-> "unsupported l2 output version"]
    ELSE [out |-> res.val, err |-> "nil"]

\* FetchOutput, driver.go:299-316.
FetchOutput(block, res) ==
    IF res.st = "clientErr" THEN [out |-> << >>, err |-> "getting rollup client"]
    ELSE IF res.st = "callErr" THEN [out |-> << >>, err |-> "fetching output at block"]
    ELSE IF res.val[1].version # supportedL2OutputVersion
         THEN [out |-> << >>, err |-> "unsupported l2 output version"]
    ELSE IF res.val[1].number # block
         THEN [out |-> << >>, err |-> "output block number mismatches requested"]
    ELSE [out |-> res.val, err |-> "nil"]

\* FetchCurrentBlockNumber, driver.go:281-297.
FetchCurrentBlockNumber(allowNonFinalized, sync) ==
    IF sync.st = "clientErr" THEN [val |-> 0, err |-> "getting rollup client"]
    ELSE IF sync.st = "callErr" THEN [val |-> 0, err |-> "getting sync status"]
    ELSE IF allowNonFinalized THEN [val |-> sync.safe, err |-> "nil"]
    ELSE [val |-> sync.finalized, err |-> "nil"]

\* The test of driver.go:243: the proposal would be of a future block.
IntervalNotElapsed(currentBlockNumber, nextCheckpointBlock) ==
    currentBlockNumber < nextCheckpointBlock

\* The test of driver.go:254 with the safe head consulted whatever the flag.
NotReadyIgnoringFlag(allowNonFinalized, o) ==
    o.number > o.finalized /\ o.number > o.safe

\* The test of driver.go:254: the fetched output is not ready for proposal.
NotReady(allowNonFinalized, o) ==
    o.number > o.finalized /\ (~allowNonFinalized \/ o.number > o.safe)

\* FetchL2OOOutput, driver.go:220-263.  calls lists the external calls made.
FetchL2OOOutput(l2ooSet, allowNonFinalized, next, sync, res) ==
    IF ~l2ooSet
    THEN [out |-> << >>, shouldPropose |-> FALSE,
          err |-> "L2OutputOracle contract not set", calls |-> << >>]
    ELSE IF ~next.ok
    THEN [out |-> << >>, shouldPropose |-> FALSE,
          err |-> "querying next block number", calls |-> <<"NextBlockNumber">>]
    ELSE
      LET nextCheckpointBlock == BigUint64(next.val)
          cur == FetchCurrentBlockNumber(allowNonFinalized, sync)
      IN  IF cur.err # "nil"
          THEN [out |-> << >>, shouldPropose |-> FALSE, err |-> cur.err,
                calls |-> <<"NextBlockNumber", "SyncStatus">>]
          ELSE IF IntervalNotElapsed(cur.val, nextCheckpointBlock)
          THEN [out |-> << >>, shouldPropose |-> FALSE, err |-> "nil",
                calls |-> <<"NextBlockNumber", "SyncStatus">>]
          ELSE
            LET f == FetchOutput(nextCheckpointBlock, res)
                all == <<"NextBlockNumber", "SyncStatus", "OutputAtBlock">>
            IN  IF f.err # "nil"
                THEN [out |-> << >>, shouldPropose |-> FALSE,
                      err |-> "fetching output", calls |-> all]
                ELSE IF NotReady(allowNonFinalized, f.out[1])
                THEN [out |-> f.out, shouldPropose |-> FALSE, err |-> "nil",
                      calls |-> all]
                ELSE [out |-> f.out, shouldPropose |-> TRUE, err |-> "nil",
                      calls |-> all]

\* FetchDGFOutput, driver.go:268-277.
FetchDGFOutput(allowNonFinalized, sync, res) ==
    LET blockNum == FetchCurrentBlockNumber(allowNonFinalized, sync)
    IN  IF blockNum.err # "nil"
        THEN [out |-> << >>, err |-> blockNum.err, calls |-> <<"SyncStatus">>]
        ELSE LET f == FetchOutput(blockNum.val, res)
             IN  [out |-> f.out, err |-> f.err,
                  calls |-> <<"SyncStatus", "OutputAtBlock">>]

(***************************************************************************)
(* State.                                                                  *)
(***************************************************************************)
VARIABLES
    cfg,          \* ProposerConfig: which addresses are set, the two flags
    inst,         \* "none" before NewL2OutputSubmitter, then "l2oo" (l2ooContract
                  \* set), "dgf" (dgfContract set) or "failed" (no instance)
    ctorCalls,    \* the contract and network calls construction made
    ctxCancelled, \* l.cancel() was called on l.ctx
    doneClosed,   \* l.done is closed
    running,      \* l.running
    wg,           \* the counter of l.wg
    mutex,        \* the holder of l.mutex, or "free"
    call,         \* per thread: the lifecycle call it is inside and where
    lastRet,      \* the latest lifecycle call that returned, and its result
    crashed,      \* an unrecovered panic ended the process
    nspawn,       \* goroutines spawned so far by Start
    worker,       \* per goroutine of loop(): its position and locals
    stopReturned, \* some Stop has returned nil
    cancelPos,    \* whether the first goroutine was inside Txmgr.Send when
                  \* Stop first cancelled the context: "none" before that,
                  \* then "send" or "other"
    fin,          \* the arguments of a fetch function applied on its own
    fres          \* and its result

lifecycleVars == <<ctxCancelled, doneClosed, running, wg, mutex, call, nspawn>>
fetchVars == <<fin, fres>>
vars == <<cfg, inst, ctorCalls, ctxCancelled, doneClosed, running, wg, mutex,
          call, lastRet, crashed, nspawn, worker, stopReturned, cancelPos,
          fin, fres>>

Configs ==
    [l2ooAddr : BOOLEAN, dgfAddr : BOOLEAN, allowNonFinalized : BOOLEAN,
     waitNodeSync : BOOLEAN]

IdleCall == [op |-> "none", pc |-> "idle"]

\* A goroutine that is not inside a tick holds nothing.
\* tx is the txmgr.TxCandidate handed to Txmgr.Send in the tick, bond the
\* answer of InitBonds in the tick, sends the calls of Txmgr.Send in the tick
\* and receipt the status of the receipt Txmgr.Send returned.  nextBig is the
\* answer of NextBlockNumber and cur that of FetchCurrentBlockNumber while
\* FetchL2OOOutput runs.
WorkerInit ==
    [pc |-> "unspawned", block |-> << >>, out |-> << >>, l1head |-> << >>, fails |-> 0,
     sleeps |-> 0, synced |-> FALSE, exitAt |-> "none", bond |-> << >>,
     tx |-> << >>, sends |-> 0, receipt |-> "none", nextBig |-> << >>,
     cur |-> << >>]

NoFetch == [fn |-> "none"]

Init ==
    /\ cfg \in Configs
    /\ inst = "none"
    /\ ctorCalls = << >>
    /\ ctxCancelled = FALSE
    /\ doneClosed = FALSE
    /\ running = FALSE
    /\ wg = 0
    /\ mutex = "free"
    /\ call = [t \in Threads |-> IdleCall]
    /\ lastRet = [op |-> "none", ret |-> "none"]
    /\ crashed = FALSE
    /\ nspawn = 0
    /\ worker = [w \in Workers |-> WorkerInit]
    /\ stopReturned = FALSE
    /\ cancelPos = "none"
    /\ fin = NoFetch
    /\ fres = NoFetch

(***************************************************************************)
(* Construction.                                                           *)
(***************************************************************************)
\* The deferred function of NewL2OutputSubmitter without its call of cancel.
DeferredCancelMissing(err) == FALSE

\* The deferred function of NewL2OutputSubmitter, driver.go:89-93: cancel the
\* context when the constructor returns an error.
DeferredCancel(err) == err # "nil"

\* newL2OOSubmitter, driver.go:104-135, and newDGFSubmitter, driver.go:137-168:
\* connect, read the version, parse the ABI.  Every failure cancels the
\* context and returns no instance.
newSubmitter(kind, callerOk, versionOk, abiOk) ==
    LET calls == IF callerOk THEN <<"NewCaller", "Version">> ELSE <<"NewCaller">>
        err == IF ~callerOk THEN "failed to create caller"
               ELSE IF ~versionOk THEN "Version failed"
               ELSE IF ~abiOk THEN "GetAbi failed" ELSE "nil"
    IN  /\ ctorCalls' = calls
        /\ lastRet' = [op |-> "New", ret |-> err]
        /\ IF callerOk /\ versionOk /\ abiOk
           THEN inst' = kind /\ ctxCancelled' = DeferredCancel(err)
           ELSE inst' = "failed" /\ ctxCancelled' = TRUE

\* driver.go:99-101: neither address is set.  Nothing was called; the error
\* is returned with no instance, and the deferred function runs.
noAddress ==
    LET err == "neither the L2OutputOracle nor DisputeGameFactory addresses were provided"
    IN  /\ inst' = "failed"
        /\ ctorCalls' = << >>
        /\ lastRet' = [op |-> "New", ret |-> err]
        /\ ctxCancelled' = DeferredCancel(err)

\* NewL2OutputSubmitter, driver.go:84-102.
NewL2OutputSubmitter ==
    /\ inst = "none"
    /\ \E callerOk \in BOOLEAN, versionOk \in BOOLEAN, abiOk \in BOOLEAN :
         IF cfg.l2ooAddr
         THEN newSubmitter("l2oo", callerOk, versionOk, abiOk)
         ELSE IF cfg.dgfAddr
         THEN newSubmitter("dgf", callerOk, versionOk, abiOk)
         ELSE noAddress
    /\ UNCHANGED <<cfg, doneClosed, running, wg, mutex, call, crashed,
                   nspawn, worker, stopReturned, cancelPos, fin, fres>>

Constructed == inst \in {"l2oo", "dgf"} /\ ~crashed

(***************************************************************************)
(* Lifecycle: Start, Stop, StopIfRunning, called from any thread.          *)
(***************************************************************************)
\* l.mutex.Lock() of driver.go:173 and driver.go:199.
CanLock(t) == Constructed /\ mutex = "free" /\ call[t].pc = "idle"

\* StartL2OutputSubmitting, driver.go:170-186.  The mutex is held throughout
\* and nothing blocks: one step.
StartL2OutputSubmitting(t) ==
    /\ CanLock(t)
    /\ IF running
       THEN /\ lastRet' = [op |-> "Start", ret |-> "proposer is already running"]
            /\ UNCHANGED <<running, wg, nspawn, worker>>
       ELSE /\ nspawn < MaxWorkers
            /\ running' = TRUE
            /\ wg' = wg + 1
            /\ nspawn' = nspawn + 1
            /\ worker' = [worker EXCEPT ![nspawn + 1].pc = "start"]
            /\ lastRet' = [op |-> "Start", ret |-> "nil"]
    /\ UNCHANGED <<cfg, inst, ctorCalls, ctxCancelled, doneClosed, mutex, call,
                   crashed, stopReturned, cancelPos, fin, fres>>

\* StopL2OutputSubmittingIfRunning passing every error on.
StopResultUnmapped(op, err) == err

\* The result StopL2OutputSubmittingIfRunning, driver.go:188-194, makes of
\* the result of StopL2OutputSubmitting.
StopResult(op, err) ==
    IF op = "StopIfRunning" /\ err = "ErrProposerNotRunning" THEN "nil" ELSE err

\* StopL2OutputSubmitting, driver.go:196-207: lock, test the flag, clear it
\* and cancel the context.  op says whether the call came through
\* StopL2OutputSubmittingIfRunning.
StopBegin(t, op) ==
    /\ CanLock(t)
    /\ IF ~running
       THEN /\ lastRet' = [op |-> op, ret |-> StopResult(op, "ErrProposerNotRunning")]
            /\ UNCHANGED <<running, ctxCancelled, mutex, call, cancelPos>>
       ELSE /\ running' = FALSE
            /\ ctxCancelled' = TRUE
            /\ mutex' = t
            /\ call' = [call EXCEPT ![t] = [op |-> op, pc |-> "close"]]
            /\ cancelPos' = IF cancelPos # "none" THEN cancelPos
                            ELSE IF worker[1].pc = "send" THEN "send" ELSE "other"
            /\ UNCHANGED lastRet
    /\ UNCHANGED <<cfg, inst, ctorCalls, doneClosed, wg, crashed, nspawn, worker,
                   stopReturned, fin, fres>>

\* close(l.done), driver.go:208.  Closing a closed channel panics: the
\* deferred Unlock of driver.go:200 runs and the panic reaches the caller,
\* which recovers it or lets the process end.
StopClose(t) ==
    /\ ~crashed
    /\ call[t].pc = "close"
    /\ IF doneClosed
       THEN /\ mutex' = "free"
            /\ call' = [call EXCEPT ![t] = IdleCall]
            /\ lastRet' = [op |-> call[t].op, ret |-> "panic"]
            /\ crashed' \in BOOLEAN
            /\ UNCHANGED doneClosed
       ELSE /\ doneClosed' = TRUE
            /\ call' = [call EXCEPT ![t].pc = "wait"]
            /\ UNCHANGED <<mutex, lastRet, crashed>>
    /\ UNCHANGED <<cfg, inst, ctorCalls, ctxCancelled, running, wg, nspawn,
                   worker, stopReturned, cancelPos, fin, fres>>

\* Stop returning without waiting for the goroutine.
WgWaitSkipped == TRUE

\* l.wg.Wait(), driver.go:209: blocks until the counter is zero.
WgWait == wg = 0

\* driver.go:209-213: the wait is over, unlock and return nil.
StopReturn(t) ==
    /\ ~crashed
    /\ call[t].pc = "wait"
    /\ WgWait
    /\ mutex' = "free"
    /\ call' = [call EXCEPT ![t] = IdleCall]
    /\ lastRet' = [op |-> call[t].op, ret |-> StopResult(call[t].op, "nil")]
    /\ stopReturned' = TRUE
    /\ UNCHANGED <<cfg, inst, ctorCalls, ctxCancelled, doneClosed, running, wg,
                   crashed, nspawn, worker, cancelPos, fin, fres>>

(***************************************************************************)
(* The worker: loop(), driver.go:428-445, one goroutine per successful     *)
(* Start.                                                                  *)
(***************************************************************************)
\* What proposeOutput and sendTransaction read of the output they are given:
\* BlockRef.Number and Status.HeadL1.Number.
Proposal(out) == <<[number |-> out[1].number, headL1 |-> out[1].headL1]>>

At(w, pc) == Constructed /\ worker[w].pc = pc

notWorker == <<cfg, inst, ctorCalls, ctxCancelled, doneClosed, running, mutex,
               call, lastRet, nspawn, stopReturned, cancelPos, fin, fres>>

\* The goroutine moves on within loop(), keeping the process alive.
Goto(w, rec) ==
    /\ worker' = [worker EXCEPT ![w] = rec]
    /\ UNCHANGED <<wg, crashed>>

\* loop() returns: the deferred l.wg.Done() of driver.go:429.
Exit(w, at) ==
    /\ worker' = [worker EXCEPT ![w] = [WorkerInit EXCEPT !.pc = "exited", !.exitAt = at]]
    /\ wg' = wg - 1
    /\ UNCHANGED crashed

\* A panic in the goroutine, which nothing recovers: the process ends.
Panic(w) ==
    /\ crashed' = TRUE
    /\ worker' = [worker EXCEPT ![w].pc = "panicked"]
    /\ UNCHANGED wg

\* The next iteration of the loop's for: the tick's locals are gone.
NextTick == [WorkerInit EXCEPT !.pc = "tickWait"]

\* driver.go:430-444 and waitNodeSync, driver.go:447-459: the L1 block number
\* and the rollup client, either of which may fail.
LoopStart(w) ==
    /\ At(w, "start")
    /\ IF cfg.waitNodeSync
       THEN \E ok \in BOOLEAN :
              IF ok THEN Goto(w, [worker[w] EXCEPT !.pc = "nodeSync"])
                    ELSE Exit(w, "waitNodeSync")
       ELSE Goto(w, NextTick)
    /\ UNCHANGED notWorker

\* dial.WaitRollupSync, driver.go:461, returns: synced, or an error.
NodeSyncReturn(w) ==
    /\ At(w, "nodeSync")
    /\ \E ok \in BOOLEAN :
         IF ok THEN Goto(w, NextTick) ELSE Exit(w, "waitNodeSync")
    /\ UNCHANGED notWorker

\* driver.go:440: loopL2OO unless the factory caller is set.
InLoopDGF == inst = "dgf"

\* case <-ticker.C of loopL2OO, driver.go:473-479, with its inner test of
\* l.done, and of loopDGF, driver.go:510-514.
TickFire(w) ==
    /\ At(w, "tickWait")
    /\ IF InLoopDGF
       THEN Goto(w, [NextTick EXCEPT !.pc = "dgfCheck"])
       ELSE IF doneClosed THEN Exit(w, "tick")
            ELSE Goto(w, [NextTick EXCEPT !.pc = "l2ooFetch"])
    /\ UNCHANGED notWorker

\* case <-l.done of the loop's select, driver.go:494-495 and 533-534.
TickDone(w) ==
    /\ At(w, "tickWait")
    /\ doneClosed
    /\ Exit(w, "tick")
    /\ UNCHANGED notWorker

\* In the worker the external calls of a fetch are steps of their own; between
\* them the goroutine holds the block number it is about to ask for.

\* driver.go:484-493: FetchL2OOOutput returned an error or shouldPropose
\* false, and the loop continues.
L2OOContinue(w) == Goto(w, NextTick)

\* FetchL2OOOutput up to the answer of NextBlockNumber, driver.go:221-235.
L2OONext(w) ==
    /\ At(w, "l2ooFetch")
    /\ \E next \in NextResults :
         IF inst # "l2oo" \/ ~next.ok
         THEN L2OOContinue(w)
         ELSE Goto(w, [worker[w] EXCEPT !.pc = "l2ooSync",
                                        !.nextBig = <<next.val>>,
                                        !.block = <<BigUint64(next.val)>>])
    /\ UNCHANGED notWorker

\* FetchL2OOOutput up to the answer of SyncStatus, driver.go:237-246.
L2OOSync(w) ==
    /\ At(w, "l2ooSync")
    /\ \E sync \in SyncResults :
         LET cur == FetchCurrentBlockNumber(cfg.allowNonFinalized, sync)
         IN  IF cur.err # "nil" THEN L2OOContinue(w)
             ELSE IF IntervalNotElapsed(cur.val, worker[w].block[1])
             THEN L2OOContinue(w)
             ELSE Goto(w, [worker[w] EXCEPT !.pc = "l2ooOutput",
                                            !.cur = <<cur.val>>])
    /\ UNCHANGED notWorker

\* FetchL2OOOutput from the answer of OutputAtBlock on, driver.go:248-263,
\* and the loop's use of the result, driver.go:485-493.
L2OOOutput(w) ==
    /\ At(w, "l2ooOutput")
    /\ \E res \in OutputResults :
         LET f == FetchOutput(worker[w].block[1], res)
         IN  IF f.err # "nil" THEN L2OOContinue(w)
             ELSE IF NotReady(cfg.allowNonFinalized, f.out[1])
             THEN L2OOContinue(w)
             ELSE Goto(w, [NextTick EXCEPT !.pc = "l1First",
                                           !.out = Proposal(f.out)])
    /\ UNCHANGED notWorker

\* The retry loop without its test of l.done.
DgfCheckNoDone(w) ==
    /\ At(w, "dgfCheck")
    /\ Goto(w, [worker[w] EXCEPT !.pc = "dgfFetch"])
    /\ UNCHANGED notWorker

\* The top of the retry loop of loopDGF, driver.go:518-523.
DgfCheck(w) ==
    /\ At(w, "dgfCheck")
    /\ IF doneClosed THEN Exit(w, "dgfRetry")
       ELSE Goto(w, [worker[w] EXCEPT !.pc = "dgfFetch"])
    /\ UNCHANGED notWorker

\* The retry loop giving up on an error: on to the next tick.
DgfFailedGivesUp(w) == Goto(w, NextTick)

\* The rest of the retry loop's body, driver.go:526-529: an error starts
\* the sleep.
DgfFailed(w) ==
    /\ worker[w].fails < MaxRetries
    /\ Goto(w, [worker[w] EXCEPT !.pc = "dgfSleep", !.block = << >>,
                                 !.fails = @ + 1, !.sleeps = @ + 1])

\* FetchDGFOutput up to the answer of SyncStatus, driver.go:269-275.
DgfSync(w) ==
    /\ At(w, "dgfFetch")
    /\ \E sync \in SyncResults :
         LET blockNum == FetchCurrentBlockNumber(cfg.allowNonFinalized, sync)
         IN  IF blockNum.err # "nil" THEN DgfFailed(w)
             ELSE Goto(w, [worker[w] EXCEPT !.pc = "dgfOutput",
                                            !.block = <<blockNum.val>>])
    /\ UNCHANGED notWorker

\* FetchDGFOutput from the answer of OutputAtBlock on, driver.go:276, the
\* loop condition, driver.go:518, and the call of proposeOutput, driver.go:532.
DgfOutput(w) ==
    /\ At(w, "dgfOutput")
    /\ \E res \in OutputResults :
         LET f == FetchOutput(worker[w].block[1], res)
         IN  IF f.err # "nil" THEN DgfFailed(w)
             ELSE Goto(w, [worker[w] EXCEPT !.pc = "l1First", !.block = << >>,
                                            !.out = Proposal(f.out)])
    /\ UNCHANGED notWorker

\* time.Sleep(l.Cfg.OutputRetryInterval), driver.go:528, is over.
DgfWake(w) ==
    /\ At(w, "dgfSleep")
    /\ Goto(w, [worker[w] EXCEPT !.pc = "dgfCheck"])
    /\ UNCHANGED notWorker

(***************************************************************************)
(* proposeOutput, driver.go:539-552, and sendTransaction, driver.go:379-425.*)
(***************************************************************************)
\* proposeOutput trying the same output again after an error.
ProposeFailRetries(w) == Goto(w, [worker[w] EXCEPT !.pc = "l1First"])

\* sendTransaction returned an error: proposeOutput logs it and returns.
ProposeFail(w) == Goto(w, NextTick)

\* The block number sendTransaction waits for, driver.go:380.
L1HeadTarget(o) == Wrap(o.headL1 + 1)

\* The loop condition of waitForL1Head, driver.go:363.
L1HeadBehind(l1head, blockNum) == l1head <= blockNum

\* waitForL1Head, driver.go:357-362: the first read of the L1 head.
L1First(w) ==
    /\ At(w, "l1First")
    /\ \E bn \in BlockNumberResults :
         IF bn.ok THEN Goto(w, [worker[w] EXCEPT !.pc = "l1Loop", !.l1head = <<bn.val>>])
                  ELSE ProposeFail(w)
    /\ UNCHANGED notWorker

Waiting(w) ==
    /\ At(w, "l1Loop")
    /\ L1HeadBehind(worker[w].l1head[1], L1HeadTarget(worker[w].out[1]))

\* driver.go:363 and 375: the head is past the target, return nil.
L1Return(w) ==
    /\ At(w, "l1Loop")
    /\ ~L1HeadBehind(worker[w].l1head[1], L1HeadTarget(worker[w].out[1]))
    /\ Goto(w, [worker[w] EXCEPT !.pc = "build", !.synced = TRUE])
    /\ UNCHANGED notWorker

\* case <-ticker.C, driver.go:366-370: read the L1 head again.
L1Tick(w) ==
    /\ Waiting(w)
    /\ \E bn \in BlockNumberResults :
         IF bn.ok THEN Goto(w, [worker[w] EXCEPT !.l1head = <<bn.val>>])
                  ELSE ProposeFail(w)
    /\ UNCHANGED notWorker

\* waitForL1Head without the case for l.done.
L1DoneMissing(w) == FALSE /\ UNCHANGED vars

\* case <-l.done, driver.go:371-372.
L1Done(w) ==
    /\ Waiting(w)
    /\ doneClosed
    /\ ProposeFail(w)
    /\ UNCHANGED notWorker

\* driver.go:387: sendTransaction takes the factory's branch when the
\* factory address is configured.
SendBranch == IF cfg.dgfAddr THEN "dgf" ELSE "l2oo"

\* The txmgr.TxCandidate of driver.go:392-397: to the factory, the bond as
\* its value.
DGFCandidate(bond) == [to |-> "DisputeGameFactoryAddr", value |-> <<bond>>]

\* The txmgr.TxCandidate of driver.go:406-410: to the oracle, no value.
L2OOCandidate == [to |-> "L2OutputOracleAddr", value |-> << >>]

\* driver.go:387-410: build the transaction and hand it to Txmgr.Send.  In
\* the factory's branch ProposeL2OutputDGFTxData, driver.go:333-343, reads
\* the bond through l.dgfContract and packs with l.dgfABI, nil pointers when
\* the instance was built for the L2OutputOracle.
Build(w) ==
    /\ At(w, "build")
    /\ IF SendBranch = "dgf"
       THEN IF inst # "dgf"
            THEN Panic(w)
            ELSE \E bond \in BondResults, packOk \in BOOLEAN :
                   IF ~bond.ok THEN ProposeFail(w)
                   ELSE IF ~packOk THEN ProposeFail(w)
                   ELSE Goto(w, [worker[w] EXCEPT !.pc = "send",
                                                  !.bond = <<bond.val>>,
                                                  !.tx = <<DGFCandidate(bond.val)>>,
                                                  !.sends = @ + 1])
       ELSE \E packOk \in BOOLEAN :
              IF packOk THEN Goto(w, [worker[w] EXCEPT !.pc = "send",
                                                       !.tx = <<L2OOCandidate>>,
                                                       !.sends = @ + 1])
                        ELSE ProposeFail(w)
    /\ UNCHANGED notWorker

\* What sendTransaction returns for what Txmgr.Send gave, driver.go:398-424:
\* the error of Send, or nil for a receipt, reverted (logged as an error) or
\* not.
SendResult(r) == IF r = "err" THEN "error" ELSE "nil"

\* Txmgr.Send returns, driver.go:398-424, and proposeOutput looks at the
\* result of sendTransaction, driver.go:543-550.
SendReturn(w) ==
    /\ At(w, "send")
    /\ \E r \in {"err", "reverted", "published"} :
         IF SendResult(r) # "nil" THEN ProposeFail(w)
         ELSE Goto(w, [worker[w] EXCEPT !.pc = "record", !.receipt = r])
    /\ UNCHANGED notWorker

\* l.Metr.RecordL2BlocksProposed(output.BlockRef), driver.go:551, and
\* proposeOutput returns to the loop.
RecordL2BlocksProposed(w) ==
    /\ At(w, "record")
    /\ Goto(w, NextTick)
    /\ UNCHANGED notWorker

WorkerStep(w) ==
    \/ LoopStart(w) \/ NodeSyncReturn(w) \/ TickFire(w) \/ TickDone(w)
    \/ L2OONext(w) \/ L2OOSync(w) \/ L2OOOutput(w)
    \/ DgfCheck(w) \/ DgfSync(w) \/ DgfOutput(w) \/ DgfWake(w)
    \/ L1First(w) \/ L1Return(w) \/ L1Tick(w) \/ L1Done(w)
    \/ Build(w) \/ SendReturn(w) \/ RecordL2BlocksProposed(w)

Next ==
    \/ NewL2OutputSubmitter
    \/ \E t \in Threads :
         \/ StartL2OutputSubmitting(t)
         \/ \E op \in {"Stop", "StopIfRunning"} : StopBegin(t, op)
         \/ StopClose(t)
         \/ StopReturn(t)
    \/ \E w \in Workers : WorkerStep(w)

Spec == Init /\ [][Next]_vars

(***************************************************************************)
(* Scheduling.  Every step of a goroutine is taken in the end: the tickers *)
(* fire, the sleep ends, and each external call carries a context with a   *)
(* timeout (NetworkTimeout, the ten minutes of proposeOutput) and returns. *)
(* dial.WaitRollupSync is given l.ctx alone and is only known to return    *)
(* once that is cancelled.  A select with l.done closed takes that case in *)
(* the end.  A thread inside Stop goes on.                                 *)
(***************************************************************************)
WorkerFairness(w) ==
    /\ WF_vars(LoopStart(w))
    /\ WF_vars(ctxCancelled /\ NodeSyncReturn(w))
    /\ WF_vars(TickFire(w))
    /\ WF_vars(TickDone(w))
    /\ WF_vars(L2OONext(w))
    /\ WF_vars(L2OOSync(w))
    /\ WF_vars(L2OOOutput(w))
    /\ WF_vars(DgfCheck(w))
    /\ WF_vars(DgfSync(w))
    /\ WF_vars(DgfOutput(w))
    /\ WF_vars(DgfWake(w))
    /\ WF_vars(L1First(w))
    /\ WF_vars(L1Return(w))
    /\ WF_vars(L1Tick(w))
    /\ WF_vars(L1Done(w))
    /\ WF_vars(Build(w))
    /\ WF_vars(SendReturn(w))
    /\ WF_vars(RecordL2BlocksProposed(w))

Fairness ==
    /\ \A w \in Workers : WorkerFairness(w)
    /\ \A t \in Threads : WF_vars(StopClose(t)) /\ WF_vars(StopReturn(t))

LiveSpec == Init /\ [][Next]_vars /\ Fairness

(***************************************************************************)
(* The fetch functions on their own: an instance after construction, the   *)
(* results of the external calls drawn in the initial state, and the       *)
(* function applied to them.  fin holds the arguments, fres the result.    *)
(***************************************************************************)
\* The instances NewL2OutputSubmitter can return for one address set.
FetchConfigs ==
    {c \in Configs : ~c.waitNodeSync /\ (c.l2ooAddr # c.dgfAddr)}

FetchInputs(kind) ==
    {[fn |-> "FetchOutput", block |-> b, res |-> res] :
        b \in Uint64s, res \in OutputResults}
    \cup {[fn |-> "FetchCurrentBlockNumber", sync |-> sync] : sync \in SyncResults}
    \cup {[fn |-> "FetchDGFOutput", sync |-> sync, res |-> res] :
        sync \in SyncResults, res \in OutputResults}
    \cup {[fn |-> "FetchL2OOOutput", next |-> next, sync |-> sync, res |-> res] :
        next \in NextResults,
        sync \in IF kind = "l2oo" THEN SyncResults ELSE {NotYetSync},
        res \in IF kind = "l2oo" THEN OutputResults ELSE {NotYetOutput}}

InitFetch ==
    /\ cfg \in FetchConfigs
    /\ inst = IF cfg.l2ooAddr THEN "l2oo" ELSE "dgf"
    /\ ctorCalls = <<"NewCaller", "Version">>
    /\ ctxCancelled = FALSE
    /\ doneClosed = FALSE
    /\ running = FALSE
    /\ wg = 0
    /\ mutex = "free"
    /\ call = [t \in Threads |-> IdleCall]
    /\ lastRet = [op |-> "New", ret |-> "nil"]
    /\ crashed = FALSE
    /\ nspawn = 0
    /\ worker = [w \in Workers |-> WorkerInit]
    /\ stopReturned = FALSE
    /\ cancelPos = "none"
    /\ fin \in FetchInputs(inst)
    /\ fres = NoFetch

notFetch == <<cfg, inst, ctorCalls, ctxCancelled, doneClosed, running, wg,
              mutex, call, lastRet, crashed, nspawn, worker, stopReturned,
              cancelPos, fin>>

Pending(fn) == fin.fn = fn /\ fres = NoFetch

CallFetchOutput ==
    /\ Pending("FetchOutput")
    /\ fres' = [fn |-> fin.fn, r |-> FetchOutput(fin.block, fin.res)]
    /\ UNCHANGED notFetch

CallFetchCurrentBlockNumber ==
    /\ Pending("FetchCurrentBlockNumber")
    /\ fres' = [fn |-> fin.fn,
                r |-> FetchCurrentBlockNumber(cfg.allowNonFinalized, fin.sync)]
    /\ UNCHANGED notFetch

CallFetchDGFOutput ==
    /\ Pending("FetchDGFOutput")
    /\ fres' = [fn |-> fin.fn,
                r |-> FetchDGFOutput(cfg.allowNonFinalized, fin.sync, fin.res)]
    /\ UNCHANGED notFetch

CallFetchL2OOOutput ==
    /\ Pending("FetchL2OOOutput")
    /\ fres' = [fn |-> fin.fn,
                r |-> FetchL2OOOutput(inst = "l2oo", cfg.allowNonFinalized,
                                      fin.next, fin.sync, fin.res)]
    /\ UNCHANGED notFetch

NextFetch ==
    \/ CallFetchOutput
    \/ CallFetchCurrentBlockNumber
    \/ CallFetchDGFOutput
    \/ CallFetchL2OOOutput

SpecFetch == InitFetch /\ [][NextFetch]_vars

(***************************************************************************)
(* Properties.                                                             *)
(***************************************************************************)
Made(r, name) == \E i \in 1..Len(r.calls) : r.calls[i] = name

\* The block number a fetch function asks OutputAtBlock for.
RequestedBlock ==
    IF fin.fn = "FetchOutput" THEN fin.block
    ELSE IF fin.fn = "FetchL2OOOutput" THEN BigUint64(fin.next.val)
    ELSE IF cfg.allowNonFinalized THEN fin.sync.safe ELSE fin.sync.finalized

\* C6: FetchOutput returns the response exactly when its version is the
\* supported one and its block number is the requested one; otherwise it
\* returns no output and an error, the unsupported-version error whenever the
\* version differs and the mismatch error when only the number differs.  An
\* output returned by FetchL2OOOutput or FetchDGFOutput has passed both tests.
C6_FetchOutputValidates ==
    /\ fres.fn = "FetchOutput" =>
         LET r == fres.r
             res == fin.res
         IN  /\ r.out # << >> =>
                  /\ r.err = "nil"
                  /\ res.st = "ok"
                  /\ r.out = res.val
                  /\ r.out[1].version = supportedL2OutputVersion
                  /\ r.out[1].number = fin.block
             /\ r.out = << >> => r.err # "nil"
             /\ (res.st = "ok" /\ res.val[1].version # supportedL2OutputVersion)
                  => r.err = "unsupported l2 output version"
             /\ (/\ res.st = "ok"
                 /\ res.val[1].version = supportedL2OutputVersion
                 /\ res.val[1].number # fin.block)
                  => r.err = "output block number mismatches requested"
    /\ (fres.fn \in {"FetchL2OOOutput", "FetchDGFOutput"} /\ fres.r.out # << >>) =>
         /\ fres.r.out[1].version = supportedL2OutputVersion
         /\ fres.r.out[1].number = RequestedBlock

\* C6 witness: a response of an unsupported version whose block number is
\* wrong as well was refused with the unsupported-version error.
C6_Witness ==
    /\ fres.fn = "FetchOutput"
    /\ fin.res.st = "ok"
    /\ fin.res.val[1].version # supportedL2OutputVersion
    /\ fin.res.val[1].number # fin.block
    /\ fres.r.err = "unsupported l2 output version"
    /\ fres.r.out = << >>

\* C7: when FetchL2OOOutput has fetched an output it returns it without an
\* error, and shouldPropose is true exactly when the output's block is not
\* past the finalized head of its own status, or non-finalized proposals are
\* allowed and it is not past the safe head of its own status.
C7_ShouldPropose ==
    fres.fn = "FetchL2OOOutput" =>
      LET r == fres.r
      IN  /\ r.out # << >> =>
               /\ r.err = "nil"
               /\ r.shouldPropose <=>
                    \/ r.out[1].number <= r.out[1].finalized
                    \/ cfg.allowNonFinalized /\ r.out[1].number <= r.out[1].safe
          /\ r.out = << >> => ~r.shouldPropose

\* C7 witness: an output at the safe head, past the finalized head, is
\* proposed with AllowNonFinalized set.
C7_Witness ==
    /\ fres.fn = "FetchL2OOOutput"
    /\ cfg.allowNonFinalized
    /\ fres.r.out # << >>
    /\ fres.r.out[1].number = fres.r.out[1].safe
    /\ fres.r.out[1].number > fres.r.out[1].finalized
    /\ fres.r.shouldPropose

\* The boundary block of a sync status: the safe head if AllowNonFinalized,
\* else the finalized head.
Boundary(sync) == IF cfg.allowNonFinalized THEN sync.safe ELSE sync.finalized

TooEarlyResult(r) ==
    /\ r.out = << >>
    /\ ~r.shouldPropose
    /\ r.err = "nil"
    /\ ~Made(r, "OutputAtBlock")

\* C8: when the boundary block is less than the next block number the
\* registry answered, FetchL2OOOutput returns (nil, false, nil) and does not
\* call OutputAtBlock.
C8_TooEarlyNoFetch ==
    (/\ fres.fn = "FetchL2OOOutput"
     /\ inst = "l2oo"
     /\ fin.next.ok
     /\ fin.sync.st = "ok"
     /\ Boundary(fin.sync) < fin.next.val) => TooEarlyResult(fres.r)

\* C8 for a registry answer that fits uint64: there the claim holds.
C8_TooEarlyNoFetchInRange ==
    (/\ fres.fn = "FetchL2OOOutput"
     /\ inst = "l2oo"
     /\ fin.next.ok
     /\ fin.next.val <= MaxUint64
     /\ fin.sync.st = "ok"
     /\ Boundary(fin.sync) < fin.next.val) => TooEarlyResult(fres.r)

Active == {w \in Workers : worker[w].pc \notin {"unspawned", "exited"}}

\* C1: when a Stop that found the driver running returns, every goroutine
\* has returned from loop(), and from then on no goroutine enters Txmgr.Send.
C1_StopWaitsForWorker ==
    [][/\ \A t \in Threads :
            (call[t].pc = "wait" /\ call'[t].pc = "idle") =>
                \A w \in Workers : worker'[w].pc \in {"unspawned", "exited"}
       /\ stopReturned =>
            \A w \in Workers : worker'[w].pc = "send" => worker[w].pc = "send"
      ]_vars

\* C1 witness: Stop has returned, and the goroutine was inside Txmgr.Send
\* when it cancelled the context.
C1_Witness ==
    /\ stopReturned
    /\ cancelPos = "send"
    /\ worker[1].pc = "exited"

\* C2: at most one goroutine of loop() is active at any time, and a Start
\* that found the driver running has returned the already-running error.
C2_SingleWorker ==
    /\ Cardinality(Active) <= 1
    /\ (lastRet.op = "Start" /\ lastRet.ret # "nil") =>
          lastRet.ret = "proposer is already running"

\* C2, its first half: a Start while running returns the error and changes
\* nothing but the record of the return.
C2_StartWhileRunning ==
    [][(running /\ mutex = "free" /\ lastRet'.op = "Start" /\ lastRet' # lastRet) =>
          /\ lastRet'.ret = "proposer is already running"
          /\ UNCHANGED <<lifecycleVars, worker, crashed>>
      ]_vars

\* C3: a Stop while not running returns ErrProposerNotRunning, a StopIfRunning
\* nil, and either leaves the running flag, the context, the done channel and
\* everything else as they were.
C3_StopNotRunning ==
    [][(/\ ~running
        /\ mutex = "free"
        /\ lastRet'.op \in {"Stop", "StopIfRunning"}
        /\ lastRet' # lastRet) =>
          /\ lastRet'.ret = IF lastRet'.op = "Stop" THEN "ErrProposerNotRunning"
                            ELSE "nil"
          /\ UNCHANGED <<lifecycleVars, worker, crashed, stopReturned>>
      ]_vars

\* C3 witness: StopIfRunning has returned nil on a driver that was never
\* started, its context not cancelled and its done channel open.
C3_Witness ==
    /\ lastRet = [op |-> "StopIfRunning", ret |-> "nil"]
    /\ nspawn = 0
    /\ ~ctxCancelled
    /\ ~doneClosed

\* C4: no Stop closes the done channel a second time: no lifecycle call
\* panics, and StopIfRunning always returns nil.
C4_TornDownOnce ==
    /\ lastRet.ret # "panic"
    /\ \A t \in Threads : ~(call[t].pc = "close" /\ doneClosed)
    /\ lastRet.op = "StopIfRunning" => lastRet.ret = "nil"

C9_SyncPastHead ==
    [][\A w \in Workers :
         /\ (worker[w].pc = "l1Loop" /\ worker'[w].pc = "build") =>
               worker[w].l1head[1] > worker[w].out[1].headL1
         /\ worker'[w].pc = "send" => worker'[w].synced
      ]_vars

\* C9 for an output whose status.headL1.number is below the largest uint64:
\* there the claim holds.
C9_SyncPastHeadInRange ==
    [][\A w \in Workers :
         /\ (/\ worker[w].pc = "l1Loop"
             /\ worker'[w].pc = "build"
             /\ worker[w].out[1].headL1 < MaxUint64) =>
               worker[w].l1head[1] > worker[w].out[1].headL1
         /\ worker'[w].pc = "send" => worker'[w].synced
      ]_vars

RetryLoop == {"dgfCheck", "dgfFetch", "dgfOutput", "dgfSleep"}

\* C10: in the DGF loop, proposeOutput is called when and only when a fetch
\* succeeds, with the output of the block asked for, after as many sleeps as
\* fetches failed in the tick; the retry loop is left without a proposal only
\* by the goroutine returning on a closed done channel.
C10_RetryUntilFetched ==
    [][\A w \in Workers :
         (InLoopDGF /\ worker[w].pc \in RetryLoop) =>
            /\ worker'[w].pc \in RetryLoop \cup {"l1First", "exited"}
            /\ worker'[w].pc = "exited" => doneClosed
            /\ worker'[w].pc = "l1First" =>
                  /\ worker[w].pc = "dgfOutput"
                  /\ worker'[w].sleeps = worker'[w].fails
                  /\ worker'[w].out[1].number = worker[w].block[1]
            /\ (worker'[w].pc # "exited" /\ worker'[w].fails # worker[w].fails) =>
                  /\ worker'[w].pc = "dgfSleep"
                  /\ worker'[w].fails = worker[w].fails + 1
                  /\ worker'[w].sleeps = worker[w].sleeps + 1
            /\ (worker'[w].pc = "dgfSleep" /\ worker[w].pc # "dgfSleep") =>
                  worker'[w].fails = worker[w].fails + 1
      ]_vars

\* C10 witness: proposeOutput is being called after MaxRetries failed fetches
\* and as many sleeps, with the done channel open.
C10_Witness ==
    /\ InLoopDGF
    /\ ~doneClosed
    /\ worker[1].pc = "l1First"
    /\ worker[1].fails = MaxRetries
    /\ worker[1].sleeps = MaxRetries

\* C11: with neither address configured NewL2OutputSubmitter returns the
\* error and no instance, has made no contract or network call, and the
\* context it created is cancelled.
C11_NoAddressFails ==
    (~cfg.l2ooAddr /\ ~cfg.dgfAddr /\ inst # "none") =>
        /\ inst = "failed"
        /\ lastRet.op = "New"
        /\ lastRet.ret # "nil"
        /\ ctorCalls = << >>
        /\ ctxCancelled

\* C11 witness: NewL2OutputSubmitter has returned for a configuration with
\* neither address.
C11_Witness ==
    /\ ~cfg.l2ooAddr
    /\ ~cfg.dgfAddr
    /\ inst = "failed"
    /\ lastRet.op = "New"

\* The mode the configuration selects, the oracle taking precedence.
Mode == IF cfg.l2ooAddr THEN "l2oo" ELSE "dgf"

L2OOLoop == {"l2ooFetch", "l2ooSync", "l2ooOutput"}

\* Every stage works in the mode of the configuration: the instance built,
\* the loop the goroutine runs, the branch sendTransaction takes (which with
\* the other mode's nil contract ends the process) and the destination of
\* the transaction.
StagesAgree ==
    /\ inst \in {"l2oo", "dgf"} => inst = Mode
    /\ \A w \in Workers :
         /\ worker[w].pc \in L2OOLoop => Mode = "l2oo"
         /\ worker[w].pc \in RetryLoop => Mode = "dgf"
         /\ worker[w].pc = "build" => SendBranch = Mode
         /\ worker[w].pc # "panicked"
         /\ worker[w].pc = "send" =>
               worker[w].tx[1].to = IF Mode = "l2oo" THEN "L2OutputOracleAddr"
                                    ELSE "DisputeGameFactoryAddr"

\* C12: one mode for the whole life of an instance, the oracle's when both
\* addresses are configured, and construction, the choice of loop, the
\* building of the transaction and its destination all follow it.
C12_OneMode == StagesAgree

\* C12 for a configuration with one address: there the claim holds.
C12_OneModeSingleAddress == (cfg.l2ooAddr # cfg.dgfAddr) => StagesAgree

\* Some goroutine of loop() is inside loop().
WorkerAlive ==
    \E w \in Workers : worker[w].pc \notin {"unspawned", "exited", "panicked"}

\* C13: while the running flag is set and no Stop has cancelled the context
\* or closed the done channel, the goroutine is still inside loop(), whatever
\* has failed.
C13_OnlyStopEndsWorker ==
    (running /\ ~ctxCancelled /\ ~doneClosed) => WorkerAlive

\* C13 without WaitNodeSync and with one address configured: there the
\* claim holds, no failure of a fetch, of the L1 wait or of the dispatch
\* ends the goroutine.
C13_OnlyStopEndsWorkerNoNodeSync ==
    (/\ ~cfg.waitNodeSync
     /\ cfg.l2ooAddr # cfg.dgfAddr
     /\ running /\ ~ctxCancelled /\ ~doneClosed) => WorkerAlive

\* After a sleep of the retry loop that ends with the done channel closed
\* the goroutine returns without another fetch.
ExitsAfterWake(w) ==
    /\ (doneClosed /\ worker[w].pc = "dgfSleep") =>
          worker'[w].pc \in {"dgfSleep", "dgfCheck"}
    /\ (doneClosed /\ worker[w].pc = "dgfCheck") =>
          worker'[w].pc \in {"dgfCheck", "exited"}

\* C14: once the done channel is closed the retry loop of loopDGF begins no
\* further sleep, and after waking from a sleep with the channel closed the
\* goroutine leaves the loop without a further fetch.
C14_RecheckAroundSleep ==
    [][\A w \in Workers :
         /\ (doneClosed /\ worker'[w].pc = "dgfSleep") => worker[w].pc = "dgfSleep"
         /\ ExitsAfterWake(w)
      ]_vars

\* C14, its second half alone: that holds.
C14_ExitAfterWake == [][\A w \in Workers : ExitsAfterWake(w)]_vars

\* C15: waitForL1Head has stopped waiting as soon as the L1 head it read is
\* greater than the status.headL1.number of the output: no goroutine is
\* still waiting in it with such a head.
C15_ReturnsPastHead ==
    \A w \in Workers :
        (worker[w].pc = "l1Loop" /\ worker[w].l1head[1] > worker[w].out[1].headL1) =>
            ~Waiting(w)

\* What does hold: waitForL1Head has stopped waiting as soon as the L1 head
\* it read is greater than status.headL1.number + 1.
C15_ReturnsPastHeadPlusOne ==
    \A w \in Workers :
        (/\ worker[w].pc = "l1Loop"
         /\ worker[w].l1head[1] > worker[w].out[1].headL1 + 1) => ~Waiting(w)

FetchedAt == {"l2ooOutput", "dgfOutput"}

\* C16: a tick makes at most one call of Txmgr.Send, with the output fetched
\* in the tick: proposeOutput is entered only from the fetch that returned
\* the output, Txmgr.Send only from the building of the transaction for that
\* output and only once, and the next tick begins with nothing carried over.
C16_OneSendPerTick ==
    [][\A w \in Workers :
         /\ worker'[w].sends <= 1
         /\ (worker'[w].pc = "l1First" /\ worker[w].pc # "l1First") =>
               /\ worker[w].pc \in FetchedAt
               /\ worker'[w].out # << >>
               /\ worker'[w].sends = 0
         /\ (worker'[w].pc = "send" /\ worker[w].pc # "send") =>
               /\ worker[w].pc = "build"
               /\ worker[w].sends = 0
               /\ worker'[w].out = worker[w].out
               /\ worker[w].out # << >>
         /\ worker'[w].out # worker[w].out =>
               \/ worker'[w].out = << >>
               \/ worker[w].pc \in FetchedAt /\ worker'[w].pc = "l1First"
         /\ (worker'[w].pc = "tickWait" /\ worker[w].pc # "tickWait") =>
               worker'[w] = NextTick
         /\ worker[w].pc \in L2OOLoop =>
               worker'[w].pc \in L2OOLoop \cup {"tickWait", "l1First"}
      ]_vars

\* C16 witness: the tick's one call of Txmgr.Send has returned a receipt for
\* the output fetched in the tick.
C16_Witness ==
    /\ worker[1].pc = "record"
    /\ worker[1].sends = 1
    /\ worker[1].out # << >>
    /\ worker[1].tx # << >>

\* C17: RecordL2BlocksProposed is called only for an output whose
\* transaction was published without reverting.
C17_MetricsOnlyOnSuccess ==
    \A w \in Workers : worker[w].pc = "record" => worker[w].receipt = "published"

\* C17 without the reverted receipt: RecordL2BlocksProposed is called only
\* after Txmgr.Send returned a receipt for the tick's output, never after an
\* error of waitForL1Head, of the building of the transaction or of Send, and
\* after it, reverted receipt or not, the loop goes on with the next tick.
C17_NoMetricsOnError ==
    [][\A w \in Workers :
         /\ (worker'[w].pc = "record" /\ worker[w].pc # "record") =>
               /\ worker[w].pc = "send"
               /\ worker[w].synced
               /\ worker'[w].receipt \in {"published", "reverted"}
         /\ worker[w].pc = "record" => worker'[w].pc \in {"record", "tickWait"}
      ]_vars

\* Every call of Txmgr.Send in flight carries the candidate of mode m.
TxMatches(w, m) ==
    worker[w].pc = "send" =>
        IF m = "dgf"
        THEN /\ worker[w].tx[1].to = "DisputeGameFactoryAddr"
             /\ worker[w].bond # << >>
             /\ worker[w].tx[1].value = worker[w].bond
        ELSE /\ worker[w].tx[1].to = "L2OutputOracleAddr"
             /\ worker[w].tx[1].value = << >>

\* In the oracle's mode the bond is not looked up: no answer of InitBonds is
\* held and the lookup has not ended the goroutine.
NoBondLookup(w) == worker[w].bond = << >> /\ worker[w].pc # "panicked"

TxMatchesMode ==
    \A w \in Workers :
        /\ TxMatches(w, Mode)
        /\ Mode = "l2oo" => NoBondLookup(w)

\* C18: every transaction handed to Txmgr.Send is the active mode's: to the
\* factory with the bond just read as its value in the factory's mode, to the
\* oracle with no value and no bond lookup in the oracle's mode.
C18_TxMatchesMode == TxMatchesMode

\* C18 for a configuration with one address: there the claim holds.
C18_TxMatchesModeSingleAddress == (cfg.l2ooAddr # cfg.dgfAddr) => TxMatchesMode

\* C18, a failed bond lookup: Txmgr.Send is entered in the factory's mode
\* only with an answer of InitBonds.
C18_NoSendWithoutBond ==
    [][\A w \in Workers :
         (SendBranch = "dgf" /\ worker'[w].pc = "send") => worker'[w].bond # << >>
      ]_vars

\* Where a goroutine is when it has not begun to fetch an output.
BeforeFetch == {"unspawned", "start", "nodeSync", "tickWait", "dgfCheck", "exited"}

\* C19: once a Stop has returned nil, a Start on the stopped driver still
\* returns nil and spawns a goroutine, and no goroutine ever gets as far as
\* an output fetch or Txmgr.Send again.
C19_StopIsPermanent ==
    [][/\ stopReturned => \A w \in Workers : worker'[w].pc \in BeforeFetch
       /\ (/\ stopReturned
           /\ ~running
           /\ lastRet'.op = "Start"
           /\ (lastRet' # lastRet \/ nspawn' # nspawn)) =>
             /\ lastRet'.ret = "nil"
             /\ running'
             /\ nspawn' = nspawn + 1
             /\ worker'[nspawn'].pc = "start"
      ]_vars

\* C19 witness: the goroutine of a Start made after a Stop had returned has
\* left its loop on the closed done channel.
C19_Witness ==
    /\ stopReturned
    /\ nspawn >= 2
    /\ lastRet = [op |-> "Start", ret |-> "nil"]
    /\ worker[2].pc = "exited"
    /\ worker[2].exitAt \in {"tick", "dgfRetry"}

\* The output handed to proposeOutput by a step out of FetchL2OOOutput has
\* the block number the registry answered in the tick, not past the boundary
\* block read in the tick.
DecidedL2OO(w) ==
    (worker[w].pc = "l2ooOutput" /\ worker'[w].pc = "l1First") =>
        /\ worker'[w].out[1].number = worker[w].nextBig[1]
        /\ worker'[w].out[1].number <= worker[w].cur[1]

\* The output handed to proposeOutput by a step out of FetchDGFOutput has the
\* boundary block read in the same attempt as its block number.
DecidedDGF(w) ==
    (worker[w].pc = "dgfOutput" /\ worker'[w].pc = "l1First") =>
        worker'[w].out[1].number = worker[w].block[1]

\* C20: every output handed to proposeOutput has the block number decided
\* in the same tick: the registry's nextBlockNumber, not past the boundary
\* block, in the oracle's loop; the boundary block of the same fetch attempt
\* in the factory's loop.
C20_DecidedBlock ==
    [][\A w \in Workers : DecidedL2OO(w) /\ DecidedDGF(w)]_vars

\* C20 for a nextBlockNumber that fits uint64: there the claim holds.
C20_DecidedBlockInRange ==
    [][\A w \in Workers :
         /\ (worker[w].nextBig # << >> /\ worker[w].nextBig[1] <= MaxUint64) =>
               DecidedL2OO(w)
         /\ DecidedDGF(w)
      ]_vars

=============================================================================
